---- MODULE Spec2Model ----
(***************************************************************************)
(* Model of the Youtube Assistant application: the layered configuration   *)
(* loader (src/config.py) and the Streamlit chat session with its agent    *)
(* dispatch (src/app.py).                                                  *)
(*                                                                         *)
(* Strings that the code only stores and compares (keys, ids, messages)    *)
(* are TLA+ strings.  Strings that the code parses (int(...), .lower())    *)
(* are sequences of one-character strings, so that parsing is computed.    *)
(***************************************************************************)
EXTENDS Integers, Sequences, FiniteSets, TLC

VARIABLES
    environ,              \* os.environ, restricted to the keys the code reads
    jsonFile,             \* ~/.config/youtube-assistant/config.json
    dotenvFile,           \* ./.env
    config,               \* config.py's module-level `config` (its _config_data)
    pc,                   \* "import" | "ready" | "crashed"
    use_web_search,       \* sidebar checkbox
    use_document_search,  \* sidebar checkbox
    max_results,          \* slider value, or MAX_RESULTS_DEFAULT without slider
    messages,             \* st.session_state.messages
    env_status,           \* result of the last get_env_status()
    load,                 \* trace of the last Config() construction
    call,                 \* trace of the last run_agent call
    event                 \* trace of the last script run (one user interaction)

vars == <<environ, jsonFile, dotenvFile, config, pc, use_web_search,
          use_document_search, max_results, messages, env_status, load,
          call, event>>

-----------------------------------------------------------------------------
(* Bounds of the model *)

\* Largest number of accepted submissions (user/assistant pairs) kept in a history.
MaxTurns == 2

-----------------------------------------------------------------------------
(* Text handling: str.strip, str.lower, int *)

Digits == <<"0", "1", "2", "3", "4", "5", "6", "7", "8", "9">>

UpperCase == <<"A", "B", "C", "D", "E", "F", "G", "H", "I", "J", "K", "L", "M",
               "N", "O", "P", "Q", "R", "S", "T", "U", "V", "W", "X", "Y", "Z">>

LowerCase == <<"a", "b", "c", "d", "e", "f", "g", "h", "i", "j", "k", "l", "m",
               "n", "o", "p", "q", "r", "s", "t", "u", "v", "w", "x", "y", "z">>

IndexOf(c, table) ==
    IF \E i \in DOMAIN table : table[i] = c
    THEN CHOOSE i \in DOMAIN table : table[i] = c
    ELSE 0

\* str.lower(), character by character
Lower(s) ==
    [i \in DOMAIN s |->
        IF IndexOf(s[i], UpperCase) # 0 THEN LowerCase[IndexOf(s[i], UpperCase)]
        ELSE s[i]]

RECURSIVE LStrip(_)
LStrip(s) == IF s # <<>> /\ Head(s) = " " THEN LStrip(Tail(s)) ELSE s

RECURSIVE RStrip(_)
RStrip(s) ==
    IF s # <<>> /\ s[Len(s)] = " " THEN RStrip(SubSeq(s, 1, Len(s) - 1)) ELSE s

RECURSIVE DigitsValue(_)
DigitsValue(s) ==
    IF s = <<>> THEN 0
    ELSE 10 * DigitsValue(SubSeq(s, 1, Len(s) - 1)) + (IndexOf(s[Len(s)], Digits) - 1)

\* The value of the digits d, negated after a "-" sign; a ValueError
\* (ok = FALSE) when d is empty or holds a character that is no digit
ParseDigits(d, negative) ==
    IF d # <<>> /\ \A i \in DOMAIN d : IndexOf(d[i], Digits) # 0
    THEN [ok |-> TRUE, val |-> IF negative THEN 0 - DigitsValue(d) ELSE DigitsValue(d)]
    ELSE [ok |-> FALSE, val |-> 0]

\* An optional sign, then digits
ParseSigned(t) ==
    IF t # <<>> /\ Head(t) \in {"+", "-"}
    THEN ParseDigits(Tail(t), Head(t) = "-")
    ELSE ParseDigits(t, FALSE)

\* int(s): surrounding blanks stripped, an optional sign, then base-10 digits;
\* anything else is a ValueError (ok = FALSE).
ParseInt(s) == ParseSigned(RStrip(LStrip(s)))

\* s.lower() == "true"
ParseBool(s) == Lower(s) = <<"t", "r", "u", "e">>

-----------------------------------------------------------------------------
(* Process environment and configuration files *)

Unset(blank) == [set |-> FALSE, val |-> blank]
SetTo(v) == [set |-> TRUE, val |-> v]

\* os.getenv(key, default) / os.environ.get(key, default)
GetEnv(env, key, default) == IF env[key].set THEN env[key].val ELSE default

EmptyEnv ==
    [OPENAI_API_KEY |-> Unset(""),
     VECTOR_STORE_ID |-> Unset(""),
     MAX_RESULTS_DEFAULT |-> Unset(<<>>),
     ENABLE_WEB_SEARCH_DEFAULT |-> Unset(<<>>),
     ENABLE_DOCUMENT_SEARCH_DEFAULT |-> Unset(<<>>)]

\* A JSON document holding no key (values keep their JSON types).
EmptyJson ==
    [OPENAI_API_KEY |-> Unset(""),
     VECTOR_STORE_ID |-> Unset(""),
     MAX_RESULTS_DEFAULT |-> Unset(0),
     ENABLE_WEB_SEARCH_DEFAULT |-> Unset(FALSE),
     ENABLE_DOCUMENT_SEARCH_DEFAULT |-> Unset(FALSE)]

\* Config._get_defaults
GetDefaults ==
    [OPENAI_API_KEY |-> "",
     VECTOR_STORE_ID |-> "",
     MAX_RESULTS_DEFAULT |-> 3,
     ENABLE_WEB_SEARCH_DEFAULT |-> TRUE,
     ENABLE_DOCUMENT_SEARCH_DEFAULT |-> FALSE]

\* Config._has_required_env_vars
HasRequiredEnvVars(env) ==
    GetEnv(env, "OPENAI_API_KEY", "") # "" /\ GetEnv(env, "VECTOR_STORE_ID", "") # ""

\* The dict of Config._load_from_env, n being int(MAX_RESULTS_DEFAULT)
EnvSettings(env, n) ==
    [raised |-> ~n.ok,
     data |->
        [OPENAI_API_KEY |-> GetEnv(env, "OPENAI_API_KEY", ""),
         VECTOR_STORE_ID |-> GetEnv(env, "VECTOR_STORE_ID", ""),
         MAX_RESULTS_DEFAULT |-> n.val,
         ENABLE_WEB_SEARCH_DEFAULT |->
            ParseBool(GetEnv(env, "ENABLE_WEB_SEARCH_DEFAULT", <<"t", "r", "u", "e">>)),
         ENABLE_DOCUMENT_SEARCH_DEFAULT |->
            ParseBool(GetEnv(env, "ENABLE_DOCUMENT_SEARCH_DEFAULT",
                             <<"f", "a", "l", "s", "e">>))]]

\* Config._load_from_env: raised is the ValueError of int(...)
LoadFromEnv(env) ==
    EnvSettings(env, ParseInt(GetEnv(env, "MAX_RESULTS_DEFAULT", <<"3">>)))

\* dict.update: the keys of the document override the defaults
Update(defaults, doc) ==
    [OPENAI_API_KEY |-> GetEnv(doc, "OPENAI_API_KEY", defaults.OPENAI_API_KEY),
     VECTOR_STORE_ID |-> GetEnv(doc, "VECTOR_STORE_ID", defaults.VECTOR_STORE_ID),
     MAX_RESULTS_DEFAULT |->
        GetEnv(doc, "MAX_RESULTS_DEFAULT", defaults.MAX_RESULTS_DEFAULT),
     ENABLE_WEB_SEARCH_DEFAULT |->
        GetEnv(doc, "ENABLE_WEB_SEARCH_DEFAULT", defaults.ENABLE_WEB_SEARCH_DEFAULT),
     ENABLE_DOCUMENT_SEARCH_DEFAULT |->
        GetEnv(doc, "ENABLE_DOCUMENT_SEARCH_DEFAULT",
               defaults.ENABLE_DOCUMENT_SEARCH_DEFAULT)]

\* Config._load_from_json without its try/except: a parse error or a
\* document that is no object propagates.
LoadFromJsonUncaught(file) ==
    IF file.kind = "object"
    THEN [raised |-> FALSE, data |-> Update(GetDefaults, file.doc)]
    ELSE [raised |-> TRUE, data |-> GetDefaults]

\* Config._load_from_json: json.load raises on a malformed file, dict.update
\* raises on a document that is no object; both are caught and the defaults
\* returned.
LoadFromJson(file) ==
    IF file.kind = "object"
    THEN [raised |-> FALSE, data |-> Update(GetDefaults, file.doc)]
    ELSE [raised |-> FALSE, data |-> GetDefaults]

\* load_dotenv(override=True)
LoadDotenvOverride(env, file) ==
    [OPENAI_API_KEY |->
        IF file.doc.OPENAI_API_KEY.set THEN file.doc.OPENAI_API_KEY
        ELSE env.OPENAI_API_KEY,
     VECTOR_STORE_ID |->
        IF file.doc.VECTOR_STORE_ID.set THEN file.doc.VECTOR_STORE_ID
        ELSE env.VECTOR_STORE_ID,
     MAX_RESULTS_DEFAULT |->
        IF file.doc.MAX_RESULTS_DEFAULT.set THEN file.doc.MAX_RESULTS_DEFAULT
        ELSE env.MAX_RESULTS_DEFAULT,
     ENABLE_WEB_SEARCH_DEFAULT |->
        IF file.doc.ENABLE_WEB_SEARCH_DEFAULT.set
        THEN file.doc.ENABLE_WEB_SEARCH_DEFAULT
        ELSE env.ENABLE_WEB_SEARCH_DEFAULT,
     ENABLE_DOCUMENT_SEARCH_DEFAULT |->
        IF file.doc.ENABLE_DOCUMENT_SEARCH_DEFAULT.set
        THEN file.doc.ENABLE_DOCUMENT_SEARCH_DEFAULT
        ELSE env.ENABLE_DOCUMENT_SEARCH_DEFAULT]

\* load_dotenv(): called without arguments, so override = False: a key of the
\* file is written to os.environ only when os.environ does not hold the key
\* (a key held with an empty value is held).
LoadDotenv(env, file) ==
    [OPENAI_API_KEY |->
        IF file.doc.OPENAI_API_KEY.set /\ ~env.OPENAI_API_KEY.set
        THEN file.doc.OPENAI_API_KEY ELSE env.OPENAI_API_KEY,
     VECTOR_STORE_ID |->
        IF file.doc.VECTOR_STORE_ID.set /\ ~env.VECTOR_STORE_ID.set
        THEN file.doc.VECTOR_STORE_ID ELSE env.VECTOR_STORE_ID,
     MAX_RESULTS_DEFAULT |->
        IF file.doc.MAX_RESULTS_DEFAULT.set /\ ~env.MAX_RESULTS_DEFAULT.set
        THEN file.doc.MAX_RESULTS_DEFAULT ELSE env.MAX_RESULTS_DEFAULT,
     ENABLE_WEB_SEARCH_DEFAULT |->
        IF file.doc.ENABLE_WEB_SEARCH_DEFAULT.set /\ ~env.ENABLE_WEB_SEARCH_DEFAULT.set
        THEN file.doc.ENABLE_WEB_SEARCH_DEFAULT ELSE env.ENABLE_WEB_SEARCH_DEFAULT,
     ENABLE_DOCUMENT_SEARCH_DEFAULT |->
        IF file.doc.ENABLE_DOCUMENT_SEARCH_DEFAULT.set
           /\ ~env.ENABLE_DOCUMENT_SEARCH_DEFAULT.set
        THEN file.doc.ENABLE_DOCUMENT_SEARCH_DEFAULT
        ELSE env.ENABLE_DOCUMENT_SEARCH_DEFAULT]

\* The result of one Config(): the settings (or the exception), the process
\* environment it leaves, and which sources it touched.
Loaded(r, env, source, jsonChecked, dotenvChecked, dotenvLoaded, before) ==
    [raised |-> r.raised, data |-> r.data, environ |-> env, source |-> source,
     jsonChecked |-> jsonChecked, jsonRead |-> source = "json",
     dotenvChecked |-> dotenvChecked, dotenvLoaded |-> dotenvLoaded,
     envBefore |-> before]

\* Step 3 once load_dotenv() has run: envAfter is os.environ after it
DotenvStep(envAfter, before) ==
    Loaded(LoadFromEnv(envAfter), envAfter, "dotenv", TRUE, TRUE, TRUE, before)

\* Config._load_configuration with the JSON step tried before the environment
LoadConfigurationJsonFirst(env, json, dotenv) ==
    IF json.kind # "absent"
    THEN Loaded(LoadFromJson(json), env, "json", TRUE, FALSE, FALSE, env)
    ELSE IF HasRequiredEnvVars(env)
    THEN Loaded(LoadFromEnv(env), env, "env", TRUE, FALSE, FALSE, env)
    ELSE IF dotenv.exists
    THEN DotenvStep(LoadDotenv(env, dotenv), env)
    ELSE Loaded([raised |-> FALSE, data |-> GetDefaults], env, "defaults",
                TRUE, TRUE, FALSE, env)

\* Config._load_configuration (Config.__init__ stores its result)
LoadConfiguration(env, json, dotenv) ==
    IF HasRequiredEnvVars(env)
    THEN Loaded(LoadFromEnv(env), env, "env", FALSE, FALSE, FALSE, env)
    ELSE IF json.kind # "absent"
    THEN Loaded(LoadFromJson(json), env, "json", TRUE, FALSE, FALSE, env)
    ELSE IF dotenv.exists
    THEN DotenvStep(LoadDotenv(env, dotenv), env)
    ELSE Loaded([raised |-> FALSE, data |-> GetDefaults], env, "defaults",
                TRUE, TRUE, FALSE, env)

\* The body of validate_required_keys after config_instance = cls()
MissingKeys(c) ==
    [raised |-> c.raised, environ |-> c.environ,
     is_valid |-> c.data.OPENAI_API_KEY # "",
     missing_keys |-> IF c.data.OPENAI_API_KEY = "" THEN <<"OPENAI_API_KEY">> ELSE <<>>]

\* Config.validate_required_keys: a fresh Config(), then the missing keys
\* (is_valid is len(missing_keys) == 0, and the API key is the only candidate)
ValidateRequiredKeys(env, json, dotenv) ==
    MissingKeys(LoadConfiguration(env, json, dotenv))

\* The dict of get_env_status, from its config_instance c and the result v of
\* validate_required_keys
EnvStatusOf(c, v) ==
    IF c.raised
    THEN [raised |-> TRUE, environ |-> c.environ, is_valid |-> FALSE,
          missing_keys |-> <<>>, openai_key_set |-> FALSE,
          vector_store_set |-> FALSE, first |-> c]
    ELSE [raised |-> v.raised, environ |-> v.environ,
          is_valid |-> v.is_valid, missing_keys |-> v.missing_keys,
          openai_key_set |-> c.data.OPENAI_API_KEY # "",
          vector_store_set |-> c.data.VECTOR_STORE_ID # "", first |-> c]

\* get_env_status after config_instance = cls()
EnvStatusAfter(c, json, dotenv) ==
    EnvStatusOf(c, ValidateRequiredKeys(c.environ, json, dotenv))

\* Config.get_env_status: a fresh Config(), then validate_required_keys (a
\* second fresh Config()), then the presence flags of the first.
GetEnvStatus(env, json, dotenv) ==
    EnvStatusAfter(LoadConfiguration(env, json, dotenv), json, dotenv)

-----------------------------------------------------------------------------
(* run_agent (src/app.py) *)

FallbackInstructions ==
    "You are a research assistant who helps users find information using available search tools. Always cite your sources."

DocumentOnlyDirective ==
    "\n\nCURRENT SESSION MODE: DOCUMENT-ONLY SEARCH. You can ONLY use information from the uploaded documents via vector search. Do NOT use any general knowledge, training data, or external information. If the answer is not in the documents, clearly state 'I don't have information about [topic] in the uploaded documents.'"

WebOnlyDirective ==
    "\n\nCURRENT SESSION MODE: WEB-ONLY SEARCH. You can only use information from web search results."

HybridDirective ==
    "\n\nCURRENT SESSION MODE: HYBRID SEARCH. You have access to both document search and web search. Use both sources appropriately."

MissingVectorStore == "Document search enabled but Vector Store ID is missing"

NoSourceEnabled == "At least one search source must be enabled"

\* Optional[int]
None == [none |-> TRUE, val |-> 0]
Some(n) == [none |-> FALSE, val |-> n]

\* load_agent_instructions: the text of agent_instructions.txt (already
\* stripped), or the built-in text when the file is not found
LoadAgentInstructions(file) ==
    IF file.exists THEN file.text ELSE FallbackInstructions

\* os.environ["OPENAI_API_KEY"] = api_key
SetApiKeyEnv(env, api_key) == [env EXCEPT !.OPENAI_API_KEY = SetTo(api_key)]

\* sep.join(parts)
RECURSIVE Join(_, _)
Join(parts, sep) ==
    IF parts = <<>> THEN ""
    ELSE IF Len(parts) = 1 THEN parts[1]
    ELSE parts[1] \o sep \o Join(Tail(parts), sep)

\* Tool assembly that lets a missing vector store pass when web search is on
BuildToolsWebMasksDocs(vs_id, enable_web, enable_docs, max_doc_results) ==
    LET web == IF enable_web THEN <<[tool |-> "WebSearchTool", max_num_results |-> None,
                                    vector_store_ids |-> <<>>]>> ELSE <<>>
        webNames == IF enable_web THEN <<"web search">> ELSE <<>>
    IN  IF enable_docs /\ vs_id = "" /\ ~enable_web
        THEN [raised |-> TRUE, error |-> MissingVectorStore,
              tools |-> web, sources_used |-> webNames]
        ELSE IF enable_docs /\ vs_id # ""
        THEN [raised |-> FALSE, error |-> "",
              tools |-> Append(web, [tool |-> "FileSearchTool",
                                     max_num_results |-> Some(max_doc_results),
                                     vector_store_ids |-> <<vs_id>>]),
              sources_used |-> Append(webNames, "vector data store search")]
        ELSE IF web = <<>>
        THEN [raised |-> TRUE, error |-> NoSourceEnabled,
              tools |-> web, sources_used |-> webNames]
        ELSE [raised |-> FALSE, error |-> "", tools |-> web, sources_used |-> webNames]

\* Tool assembly and the two precondition failures of run_agent
BuildTools(vs_id, enable_web, enable_docs, max_doc_results) ==
    LET web == IF enable_web THEN <<[tool |-> "WebSearchTool", max_num_results |-> None,
                                    vector_store_ids |-> <<>>]>> ELSE <<>>
        webNames == IF enable_web THEN <<"web search">> ELSE <<>>
    IN  IF enable_docs /\ vs_id = ""
        THEN [raised |-> TRUE, error |-> MissingVectorStore,
              tools |-> web, sources_used |-> webNames]
        ELSE IF enable_docs
        THEN [raised |-> FALSE, error |-> "",
              tools |-> Append(web, [tool |-> "FileSearchTool",
                                     max_num_results |-> Some(max_doc_results),
                                     vector_store_ids |-> <<vs_id>>]),
              sources_used |-> Append(webNames, "vector data store search")]
        ELSE IF web = <<>>
        THEN [raised |-> TRUE, error |-> NoSourceEnabled,
              tools |-> web, sources_used |-> webNames]
        ELSE [raised |-> FALSE, error |-> "", tools |-> web, sources_used |-> webNames]

\* The mode chain written as independent tests, the first without `not enable_web`
ModeDirectiveIndependentTests(enable_web, enable_docs) ==
    (IF enable_docs THEN <<DocumentOnlyDirective>> ELSE <<>>)
    \o (IF enable_web /\ ~enable_docs THEN <<WebOnlyDirective>> ELSE <<>>)
    \o (IF enable_web /\ enable_docs THEN <<HybridDirective>> ELSE <<>>)

\* The if/elif/elif chain: the blocks it appends to the instructions
ModeDirective(enable_web, enable_docs) ==
    IF enable_docs /\ ~enable_web THEN <<DocumentOnlyDirective>>
    ELSE IF enable_web /\ ~enable_docs THEN <<WebOnlyDirective>>
    ELSE IF enable_web /\ enable_docs THEN <<HybridDirective>>
    ELSE <<>>

\* The footer line
SourcesFooter(sources_used) ==
    "\n\nCURRENT ACTIVE SOURCES: " \o Join(sources_used, " and ")

\* Metadata that reports the maximum whether or not documents are searched
BuildMetadataAlwaysMax(sources_used, enable_web, enable_docs, max_doc_results) ==
    [sources_enabled |-> sources_used, web_search |-> enable_web,
     document_search |-> enable_docs, max_doc_results |-> Some(max_doc_results)]

\* The metadata of the returned dict
BuildMetadata(sources_used, enable_web, enable_docs, max_doc_results) ==
    [sources_enabled |-> sources_used, web_search |-> enable_web,
     document_search |-> enable_docs,
     max_doc_results |-> IF enable_docs THEN Some(max_doc_results) ELSE None]

NoMetadata == BuildMetadata(<<>>, FALSE, FALSE, 0)

\* The arguments of a run_agent call
Args(query, api_key, vs_id, enable_web, enable_docs, max_doc_results) ==
    [query |-> query, api_key |-> api_key, vs_id |-> vs_id, enable_web |-> enable_web,
     enable_docs |-> enable_docs, max_doc_results |-> max_doc_results]

\* No run_agent call in this step
NoCall ==
    [called |-> FALSE, args |-> Args("", "", "", FALSE, FALSE, 0),
     raised |-> FALSE, error |-> "", assembled |-> FALSE, base |-> "",
     instructions |-> <<>>, tools |-> <<>>, agents |-> 0, runs |-> 0,
     response |-> "", metadata |-> NoMetadata, envBefore |-> EmptyEnv,
     environ |-> EmptyEnv]

\* run_agent after tool assembly (t) and load_agent_instructions (base)
Dispatch(env, a, t, base, outcome) ==
    IF t.raised
    THEN [called |-> TRUE, args |-> a, raised |-> TRUE, error |-> t.error,
          assembled |-> FALSE, base |-> "", instructions |-> <<>>,
          tools |-> t.tools, agents |-> 0, runs |-> 0, response |-> "",
          metadata |-> NoMetadata, envBefore |-> env,
          environ |-> SetApiKeyEnv(env, a.api_key)]
    ELSE [called |-> TRUE, args |-> a, raised |-> ~outcome.ok,
          error |-> IF outcome.ok THEN "" ELSE outcome.text,
          assembled |-> TRUE, base |-> base,
          instructions |-> (<<base>> \o ModeDirective(a.enable_web, a.enable_docs))
                           \o <<SourcesFooter(t.sources_used)>>,
          tools |-> t.tools, agents |-> 1, runs |-> 1,
          response |-> IF outcome.ok THEN outcome.text ELSE "",
          metadata |-> IF outcome.ok
                       THEN BuildMetadata(t.sources_used, a.enable_web,
                                          a.enable_docs, a.max_doc_results)
                       ELSE NoMetadata,
          envBefore |-> env, environ |-> SetApiKeyEnv(env, a.api_key)]

\* run_agent.  instrFile is agent_instructions.txt as it is at this call;
\* outcome is what Runner.run does: [ok, text], the final output or the
\* message of the exception it raises.  The instructions are kept as the
\* sequence of blocks that `+=` concatenates.
RunAgent(env, a, instrFile, outcome) ==
    Dispatch(env, a,
             BuildTools(a.vs_id, a.enable_web, a.enable_docs, a.max_doc_results),
             LoadAgentInstructions(instrFile), outcome)

-----------------------------------------------------------------------------
(* The chat session (src/app.py): one action is one run of the script,     *)
(* started by one interaction of the user                                  *)

SliderMin == 1
SliderMax == 10

UserEntry(prompt) == [role |-> "user", content |-> prompt]

AssistantEntry(r) ==
    [role |-> "assistant", content |-> r.response, metadata |-> r.metadata]

ErrorEntry(r) == [role |-> "assistant", content |-> "Error: " \o r.error]

\* The submit handler without its except clause: the exception of run_agent
\* leaves the script, nothing is appended after the user's entry
AfterDispatchUncaught(history, r) ==
    IF r.raised THEN history ELSE Append(history, AssistantEntry(r))

\* The try/except around asyncio.run(run_agent(...)): what is appended
AfterDispatch(history, r) ==
    IF r.raised THEN Append(history, ErrorEntry(r))
    ELSE Append(history, AssistantEntry(r))

\* The caller's checks without the API key check
RejectionNoKeyCheck(settings, web, docs) ==
    IF settings.VECTOR_STORE_ID = "" /\ docs THEN "missing_vector_store"
    ELSE IF ~web /\ ~docs THEN "no_source"
    ELSE ""

\* The caller's checks before a submission is accepted: the st.error branch
\* taken, or "" when the submission is accepted
Rejection(settings, web, docs) ==
    IF settings.OPENAI_API_KEY = "" THEN "missing_api_key"
    ELSE IF settings.VECTOR_STORE_ID = "" /\ docs THEN "missing_vector_store"
    ELSE IF ~web /\ ~docs THEN "no_source"
    ELSE ""

\* The dict get_env_status returns (raised: a Config() in it raised)
StatusDict(st) ==
    [raised |-> st.raised, is_valid |-> st.is_valid, missing_keys |-> st.missing_keys,
     openai_key_set |-> st.openai_key_set, vector_store_set |-> st.vector_store_set]

NoStatus ==
    [raised |-> FALSE, is_valid |-> FALSE, missing_keys |-> <<>>,
     openai_key_set |-> FALSE, vector_store_set |-> FALSE]

Event(kind, rejection, before) ==
    [kind |-> kind, accepted |-> kind = "submit" /\ rejection = "",
     rejection |-> rejection, before |-> before]

\* The sidebar of the next script run renders: get_env_status() returns
SidebarRenders == ~GetEnvStatus(environ, jsonFile, dotenvFile).raised

Prompts == {"q1"}

InstructionFiles ==
    {[exists |-> FALSE, text |-> ""], [exists |-> TRUE, text |-> "Answer briefly."]}

Outcomes ==
    {[ok |-> TRUE, text |-> "answer"], [ok |-> FALSE, text |-> "Connection error."]}

\* `config = Config()` when config.py is imported; the widgets take their
\* initial values from it when they are first rendered
ImportConfig ==
    /\ pc = "import"
    /\ \E c \in {LoadConfiguration(environ, jsonFile, dotenvFile)} :
          /\ config' = c
          /\ load' = c
          /\ environ' = c.environ
          /\ pc' = IF c.raised THEN "crashed" ELSE "ready"
          /\ use_web_search' = c.data.ENABLE_WEB_SEARCH_DEFAULT
          /\ use_document_search' = c.data.ENABLE_DOCUMENT_SEARCH_DEFAULT
          /\ max_results' = c.data.MAX_RESULTS_DEFAULT
    /\ event' = Event("import", "", messages)
    /\ UNCHANGED <<jsonFile, dotenvFile, messages, env_status, call>>

\* A script run that ends at line 33: get_env_status() raises
ScriptAbort ==
    /\ pc = "ready"
    /\ \E st \in {GetEnvStatus(environ, jsonFile, dotenvFile)} :
          /\ st.raised
          /\ environ' = st.environ
          /\ env_status' = StatusDict(st)
    /\ event' = Event("aborted", "", messages)
    /\ call' = NoCall
    /\ UNCHANGED <<jsonFile, dotenvFile, config, pc, use_web_search,
                   use_document_search, max_results, messages, load>>

\* A script run in which no button is pressed and nothing is submitted
Rerender(kind, web, docs, maxr) ==
    /\ pc = "ready"
    /\ \E st \in {GetEnvStatus(environ, jsonFile, dotenvFile)} :
          /\ ~st.raised
          /\ environ' = st.environ
          /\ env_status' = StatusDict(st)
    /\ use_web_search' = web
    /\ use_document_search' = docs
    /\ max_results' = maxr
    /\ event' = Event(kind, "", messages)
    /\ call' = NoCall
    /\ UNCHANGED <<jsonFile, dotenvFile, config, pc, messages, load>>

ToggleWeb == Rerender("toggle_web", ~use_web_search, use_document_search, max_results)

\* The slider exists only while Document Search is checked and starts at the
\* default each time it appears; without it max_results is the default
ToggleDocs ==
    Rerender("toggle_docs", use_web_search, ~use_document_search,
             config.data.MAX_RESULTS_DEFAULT)

SetMaxResults ==
    /\ use_document_search
    /\ \E v \in {SliderMax} :
          /\ v # max_results
          /\ Rerender("slider", use_web_search, use_document_search, v)

\* The "Clear Chat History" button, and the rerun it asks for
ClearChat ==
    /\ pc = "ready"
    /\ \E st \in {GetEnvStatus(environ, jsonFile, dotenvFile)} :
       \E again \in {GetEnvStatus(st.environ, jsonFile, dotenvFile)} :
          /\ ~st.raised
          /\ environ' = again.environ
          /\ env_status' = StatusDict(again)
    /\ messages' = <<>>
    /\ event' = Event("clear", "", messages)
    /\ call' = NoCall
    /\ UNCHANGED <<jsonFile, dotenvFile, config, pc, use_web_search,
                   use_document_search, max_results, load>>

\* st.chat_input returns a prompt: the checks, and for an accepted submission
\* the dispatch, the append and the rerun
Submit ==
    /\ pc = "ready"
    /\ \E prompt \in Prompts, instrFile \in InstructionFiles, outcome \in Outcomes :
       \E st \in {GetEnvStatus(environ, jsonFile, dotenvFile)} :
       \E why \in {Rejection(config.data, use_web_search, use_document_search)} :
       \E r \in {RunAgent(st.environ,
                          Args(prompt, config.data.OPENAI_API_KEY,
                               config.data.VECTOR_STORE_ID, use_web_search,
                               use_document_search, max_results),
                          instrFile, outcome)} :
       \E again \in {GetEnvStatus(r.environ, jsonFile, dotenvFile)} :
          /\ ~st.raised
          /\ IF why # ""
             THEN /\ environ' = st.environ
                  /\ env_status' = StatusDict(st)
                  /\ messages' = messages
                  /\ call' = NoCall
                  /\ event' = Event("submit", why, messages)
             ELSE /\ Len(messages) < 2 * MaxTurns
                  /\ messages' = AfterDispatch(Append(messages, UserEntry(prompt)), r)
                  /\ call' = r
                  /\ environ' = again.environ
                  /\ env_status' = StatusDict(again)
                  /\ event' = Event("submit", "", messages)
    /\ UNCHANGED <<jsonFile, dotenvFile, config, pc, use_web_search,
                   use_document_search, max_results, load>>

-----------------------------------------------------------------------------
(* Direct calls of the configuration helpers and of run_agent *)

ValidateRequiredKeysCall ==
    /\ pc = "ready"
    /\ \E c \in {LoadConfiguration(environ, jsonFile, dotenvFile)} :
       \E v \in {MissingKeys(c)} :
          /\ load' = c
          /\ environ' = v.environ
          /\ env_status' = [raised |-> v.raised, is_valid |-> v.is_valid,
                            missing_keys |-> v.missing_keys,
                            openai_key_set |-> FALSE, vector_store_set |-> FALSE]
    /\ event' = Event("validate_required_keys", "", messages)
    /\ UNCHANGED <<jsonFile, dotenvFile, config, pc, use_web_search,
                   use_document_search, max_results, messages, call>>

GetEnvStatusCall ==
    /\ pc = "ready"
    /\ \E st \in {GetEnvStatus(environ, jsonFile, dotenvFile)} :
          /\ load' = st.first
          /\ environ' = st.environ
          /\ env_status' = StatusDict(st)
    /\ event' = Event("get_env_status", "", messages)
    /\ UNCHANGED <<jsonFile, dotenvFile, config, pc, use_web_search,
                   use_document_search, max_results, messages, call>>

RunAgentCall ==
    /\ pc = "ready"
    /\ \E query \in Prompts, api_key \in {"", "sk-arg"}, vs_id \in {"", "vs-arg"},
          enable_web \in BOOLEAN, enable_docs \in BOOLEAN,
          max_doc_results \in {SliderMin, GetDefaults.MAX_RESULTS_DEFAULT, SliderMax},
          instrFile \in InstructionFiles, outcome \in Outcomes :
       \E r \in {RunAgent(environ,
                          Args(query, api_key, vs_id, enable_web, enable_docs,
                               max_doc_results),
                          instrFile, outcome)} :
          /\ call' = r
          /\ environ' = r.environ
    /\ event' = Event("run_agent", "", messages)
    /\ UNCHANGED <<jsonFile, dotenvFile, config, pc, use_web_search,
                   use_document_search, max_results, messages, env_status, load>>

-----------------------------------------------------------------------------
(* Initial states and specifications *)

NoJson == [kind |-> "absent", doc |-> EmptyJson]
NoDotenv == [exists |-> FALSE, doc |-> EmptyEnv]
JsonKeyOnly ==
    [kind |-> "object", doc |-> [EmptyJson EXCEPT !.OPENAI_API_KEY = SetTo("sk-json")]]
JsonFull ==
    [kind |-> "object",
     doc |-> [EmptyJson EXCEPT !.OPENAI_API_KEY = SetTo("sk-json"),
                               !.VECTOR_STORE_ID = SetTo("vs-json"),
                               !.MAX_RESULTS_DEFAULT = SetTo(7),
                               !.ENABLE_DOCUMENT_SEARCH_DEFAULT = SetTo(TRUE)]]
DotenvBoth ==
    [exists |-> TRUE,
     doc |-> [EmptyEnv EXCEPT !.OPENAI_API_KEY = SetTo("sk-dotenv"),
                              !.VECTOR_STORE_ID = SetTo("vs-dotenv")]]
DotenvKeyOnly ==
    [exists |-> TRUE,
     doc |-> [EmptyEnv EXCEPT !.OPENAI_API_KEY = SetTo("sk-dotenv")]]

\* The config.json files tried: absent, malformed, well-formed but no object,
\* and objects
JsonFiles ==
    {NoJson,
     [kind |-> "malformed", doc |-> EmptyJson],
     [kind |-> "nonobject", doc |-> EmptyJson],
     [kind |-> "object", doc |-> EmptyJson],
     JsonKeyOnly,
     JsonFull}

\* The .env files tried
DotenvFiles ==
    {NoDotenv,
     [exists |-> TRUE, doc |-> EmptyEnv],
     DotenvBoth,
     [exists |-> TRUE,
      doc |-> [EmptyEnv EXCEPT !.OPENAI_API_KEY = SetTo("sk-dotenv"),
                               !.VECTOR_STORE_ID = SetTo("vs-dotenv"),
                               !.MAX_RESULTS_DEFAULT = SetTo(<<"a", "b", "c">>)]],
     [exists |-> TRUE,
      doc |-> [EmptyEnv EXCEPT !.VECTOR_STORE_ID = SetTo("vs-dotenv"),
                               !.ENABLE_DOCUMENT_SEARCH_DEFAULT =
                                    SetTo(<<"T", "R", "U", "E">>)]]}

\* The process environments tried
Environments ==
    [OPENAI_API_KEY : {Unset(""), SetTo(""), SetTo("sk-env")},
     VECTOR_STORE_ID : {Unset(""), SetTo(""), SetTo("vs-env")},
     MAX_RESULTS_DEFAULT : {Unset(<<>>), SetTo(<<"5">>), SetTo(<<" ", "1", "0">>),
                            SetTo(<<"a", "b", "c">>)},
     ENABLE_WEB_SEARCH_DEFAULT : {Unset(<<>>), SetTo(<<"F", "a", "l", "s", "e">>)},
     ENABLE_DOCUMENT_SEARCH_DEFAULT : {Unset(<<>>), SetTo(<<"T", "r", "u", "e">>),
                                       SetTo(<<"y", "e", "s">>)}]

\* The deployments a session is started in: <<os.environ, config.json, .env>>
Deployments ==
    {<<[EmptyEnv EXCEPT !.OPENAI_API_KEY = SetTo("sk-env"),
                        !.VECTOR_STORE_ID = SetTo("vs-env")], JsonFull, DotenvBoth>>,
     <<[EmptyEnv EXCEPT !.VECTOR_STORE_ID = SetTo("vs-env")], JsonKeyOnly, NoDotenv>>,
     <<[EmptyEnv EXCEPT !.VECTOR_STORE_ID = SetTo("vs-env"),
                        !.MAX_RESULTS_DEFAULT = SetTo(<<"a", "b", "c">>)],
       JsonKeyOnly, DotenvBoth>>,
     <<EmptyEnv, JsonFull, NoDotenv>>,
     <<EmptyEnv, NoJson, DotenvBoth>>,
     <<[EmptyEnv EXCEPT !.VECTOR_STORE_ID = SetTo("vs-env")], NoJson, DotenvKeyOnly>>,
     <<EmptyEnv, NoJson, DotenvKeyOnly>>,
     <<[EmptyEnv EXCEPT !.OPENAI_API_KEY = SetTo("sk-env")], NoJson, NoDotenv>>,
     <<EmptyEnv, [kind |-> "malformed", doc |-> EmptyJson], DotenvBoth>>,
     <<EmptyEnv, NoJson, NoDotenv>>}

Start(deployments) ==
    /\ \E d \in deployments :
          /\ environ = d[1]
          /\ jsonFile = d[2]
          /\ dotenvFile = d[3]
    /\ pc = "import"
    /\ config = LoadConfiguration(EmptyEnv, NoJson, NoDotenv)
    /\ load = config
    /\ use_web_search = TRUE
    /\ use_document_search = FALSE
    /\ max_results = GetDefaults.MAX_RESULTS_DEFAULT
    /\ messages = <<>>
    /\ env_status = NoStatus
    /\ call = NoCall
    /\ event = Event("none", "", <<>>)

\* The chat session
Init == Start(Deployments)

Next ==
    \/ ImportConfig
    \/ ToggleWeb
    \/ ToggleDocs
    \/ SetMaxResults
    \/ ClearChat
    \/ Submit
    \/ ScriptAbort

Spec == Init /\ [][Next]_vars

\* Configuration resolution over every combination of sources
InitConfig == Start(Environments \X JsonFiles \X DotenvFiles)

NextConfig ==
    \/ ImportConfig
    \/ ValidateRequiredKeysCall
    \/ GetEnvStatusCall

SpecConfig == InitConfig /\ [][NextConfig]_vars

\* run_agent called with every combination of arguments
InitRunAgent ==
    Start({EmptyEnv, [EmptyEnv EXCEPT !.OPENAI_API_KEY = SetTo("sk-env")]}
          \X {NoJson} \X {NoDotenv})

NextRunAgent ==
    \/ ImportConfig
    \/ RunAgentCall

SpecRunAgent == InitRunAgent /\ [][NextRunAgent]_vars

-----------------------------------------------------------------------------
(* Properties *)

\* Both required keys are held, non-empty, by a process environment
BothKeysSet(env) ==
    /\ env.OPENAI_API_KEY.set /\ env.OPENAI_API_KEY.val # ""
    /\ env.VECTOR_STORE_ID.set /\ env.VECTOR_STORE_ID.val # ""

\* A Config() has been constructed: `load` is its trace
Constructed == event.kind \in {"import", "validate_required_keys", "get_env_status"}

\* The .env file sets both required keys
DotenvSetsBoth == dotenvFile.exists /\ BothKeysSet(dotenvFile.doc)

\* C1: when the process environment holds both OPENAI_API_KEY and
\* VECTOR_STORE_ID non-empty, Config() takes the environment step whatever the
\* JSON file and the .env file are: neither file is looked for, read or
\* loaded, the environment is left as it was, and the settings it returns hold
\* exactly the environment's two values.
C1_EnvironmentWins ==
    (Constructed /\ BothKeysSet(load.envBefore)) =>
        /\ load.source = "env"
        /\ ~load.jsonChecked /\ ~load.jsonRead
        /\ ~load.dotenvChecked /\ ~load.dotenvLoaded
        /\ load.environ = load.envBefore
        /\ ~load.raised =>
            /\ load.data.OPENAI_API_KEY = load.envBefore.OPENAI_API_KEY.val
            /\ load.data.VECTOR_STORE_ID = load.envBefore.VECTOR_STORE_ID.val

C1_Witness ==
    /\ event.kind = "import"
    /\ BothKeysSet(load.envBefore)
    /\ jsonFile.kind = "object" /\ jsonFile.doc.OPENAI_API_KEY.set
    /\ DotenvSetsBoth
    /\ ~load.raised
    /\ load.data.OPENAI_API_KEY = "sk-env"
    /\ load.data.VECTOR_STORE_ID = "vs-env"

\* The case of C2: step 1 is not satisfied, no JSON file, a .env file that
\* sets both keys, and Config() returns
DotenvCase ==
    /\ Constructed
    /\ ~BothKeysSet(load.envBefore)
    /\ jsonFile.kind = "absent"
    /\ DotenvSetsBoth
    /\ ~load.raised

\* C2 as stated: in that case both settings are the .env file's values.
C2_DotenvValuesReturned ==
    DotenvCase =>
        /\ load.data.OPENAI_API_KEY = dotenvFile.doc.OPENAI_API_KEY.val
        /\ load.data.VECTOR_STORE_ID = dotenvFile.doc.VECTOR_STORE_ID.val

\* C2 amended: in that case the .env step is taken, and each of the two
\* settings is the .env file's value when the process environment does not
\* hold the key, and the process environment's own value (empty or not) when
\* it holds it.
C2_DotenvFillsUnsetKeys ==
    DotenvCase =>
        /\ load.source = "dotenv"
        /\ load.dotenvLoaded
        /\ load.data.OPENAI_API_KEY =
              IF load.envBefore.OPENAI_API_KEY.set
              THEN load.envBefore.OPENAI_API_KEY.val
              ELSE dotenvFile.doc.OPENAI_API_KEY.val
        /\ load.data.VECTOR_STORE_ID =
              IF load.envBefore.VECTOR_STORE_ID.set
              THEN load.envBefore.VECTOR_STORE_ID.val
              ELSE dotenvFile.doc.VECTOR_STORE_ID.val

C2_Witness ==
    /\ DotenvCase
    /\ event.kind = "import"
    /\ load.envBefore.OPENAI_API_KEY = SetTo("sk-env")
    /\ ~load.envBefore.VECTOR_STORE_ID.set
    /\ load.data.OPENAI_API_KEY = "sk-env"
    /\ load.data.VECTOR_STORE_ID = "vs-dotenv"

\* C3: when step 1 is not satisfied and the JSON file exists but is
\* malformed, Config() does not raise and returns the defaults (empty key and
\* vector-store id, 3, true, false); the .env file is neither looked for nor
\* loaded and the process environment is as it was.
C3_MalformedJsonGivesDefaults ==
    (Constructed /\ ~BothKeysSet(load.envBefore) /\ jsonFile.kind = "malformed") =>
        /\ ~load.raised
        /\ load.data = [OPENAI_API_KEY |-> "", VECTOR_STORE_ID |-> "",
                        MAX_RESULTS_DEFAULT |-> 3,
                        ENABLE_WEB_SEARCH_DEFAULT |-> TRUE,
                        ENABLE_DOCUMENT_SEARCH_DEFAULT |-> FALSE]
        /\ ~load.dotenvChecked /\ ~load.dotenvLoaded
        /\ load.environ = load.envBefore
        /\ environ = load.envBefore

C3_Witness ==
    /\ event.kind = "import"
    /\ ~BothKeysSet(load.envBefore)
    /\ load.envBefore.OPENAI_API_KEY.set
    /\ jsonFile.kind = "malformed"
    /\ DotenvSetsBoth
    /\ load.source = "json"
    /\ load.data.OPENAI_API_KEY = ""
    /\ pc = "ready"

\* C4: a run_agent call with neither source enabled raises "At least one
\* search source must be enabled"; a call with document search enabled and an
\* empty vector-store id raises "Document search enabled but Vector Store ID
\* is missing", with or without web search; in both cases no Agent has been
\* constructed and Runner.run has not been called.
C4_PreconditionFailures ==
    call.called =>
        /\ (~call.args.enable_web /\ ~call.args.enable_docs) =>
            /\ call.raised
            /\ call.error = "At least one search source must be enabled"
            /\ call.agents = 0 /\ call.runs = 0
        /\ (call.args.enable_docs /\ call.args.vs_id = "") =>
            /\ call.raised
            /\ call.error = "Document search enabled but Vector Store ID is missing"
            /\ call.agents = 0 /\ call.runs = 0

C4_Witness ==
    /\ call.called
    /\ call.args.enable_web /\ call.args.enable_docs /\ call.args.vs_id = ""
    /\ call.args.api_key # ""
    /\ call.raised
    /\ call.agents = 0

\* C5: the metadata of a run_agent call that returns is decided by the
\* selection: sources_enabled lists "web search" iff web is enabled, then
\* "vector data store search" iff documents are enabled; web_search and
\* document_search are the two flags; max_doc_results is the passed maximum
\* when documents are enabled and None otherwise.
C5_MetadataFromSelection ==
    (call.called /\ ~call.raised) =>
        call.metadata =
            [sources_enabled |->
                (IF call.args.enable_web THEN <<"web search">> ELSE <<>>)
                \o (IF call.args.enable_docs THEN <<"vector data store search">>
                    ELSE <<>>),
             web_search |-> call.args.enable_web,
             document_search |-> call.args.enable_docs,
             max_doc_results |->
                IF call.args.enable_docs
                THEN [none |-> FALSE, val |-> call.args.max_doc_results]
                ELSE [none |-> TRUE, val |-> 0]]

C5_Witness ==
    /\ call.called /\ ~call.raised
    /\ call.args.enable_web /\ ~call.args.enable_docs
    /\ call.args.max_doc_results = SliderMax
    /\ call.metadata.max_doc_results.none
    /\ call.metadata.sources_enabled = <<"web search">>

\* C7: a run_agent call assembles instructions exactly when it passes both
\* preconditions (never with neither source enabled); the instructions are
\* then the base text, one mode directive (DOCUMENT-ONLY for documents alone,
\* WEB-ONLY for web alone, HYBRID for both) and the footer naming the enabled
\* labels joined with " and ".
C7_InstructionAssembly ==
    call.called =>
        LET web == call.args.enable_web
            docs == call.args.enable_docs
        IN  /\ call.assembled <=> ((web \/ docs) /\ ~(docs /\ call.args.vs_id = ""))
            /\ ~call.assembled => call.instructions = <<>>
            /\ call.assembled =>
                /\ Len(call.instructions) = 3
                /\ call.instructions[1] = call.base
                /\ call.instructions[2] =
                      IF ~web THEN DocumentOnlyDirective
                      ELSE IF ~docs THEN WebOnlyDirective
                      ELSE HybridDirective
                /\ call.instructions[3] =
                      IF ~web
                      THEN "\n\nCURRENT ACTIVE SOURCES: vector data store search"
                      ELSE IF ~docs
                      THEN "\n\nCURRENT ACTIVE SOURCES: web search"
                      ELSE "\n\nCURRENT ACTIVE SOURCES: web search and vector data store search"
                /\ ~call.raised =>
                      call.instructions[3] =
                          "\n\nCURRENT ACTIVE SOURCES: "
                          \o Join(call.metadata.sources_enabled, " and ")

C7_Witness ==
    /\ call.called /\ ~call.raised /\ call.assembled
    /\ call.args.enable_web /\ call.args.enable_docs
    /\ call.instructions[2] = HybridDirective
    /\ call.base = FallbackInstructions

\* The history before the last script run followed by the two entries of a
\* failed dispatch
FailedTurn ==
    event.before \o <<[role |-> "user", content |-> call.args.query],
                      [role |-> "assistant", content |-> "Error: " \o call.error]>>

\* C6 as stated: after an accepted submission whose run_agent call raised,
\* the history is the earlier history, the user's entry and one
\* "Error: <message>" entry without metadata; Runner.run was called at most
\* once; and the session still takes queries (the next script run reaches the
\* chat input).
C6_FailureSemantics ==
    (event.kind = "submit" /\ event.accepted /\ call.raised) =>
        /\ messages = FailedTurn
        /\ call.runs <= 1
        /\ pc = "ready"
        /\ SidebarRenders

\* C8: run_agent is never called while the settings' OPENAI_API_KEY is empty:
\* a submission made then is rejected with the API key message, for every
\* source selection, and run_agent never receives an empty key.
C8_NoDispatchWithoutKey ==
    /\ call.called => (config.data.OPENAI_API_KEY # "" /\ call.args.api_key # "")
    /\ (event.kind = "submit" /\ config.data.OPENAI_API_KEY = "") =>
        /\ ~event.accepted
        /\ event.rejection = "missing_api_key"
        /\ ~call.called
        /\ messages = event.before

C8_Witness ==
    /\ event.kind = "submit"
    /\ config.data.OPENAI_API_KEY = ""
    /\ use_web_search /\ use_document_search
    /\ event.rejection = "missing_api_key"
    /\ environ.OPENAI_API_KEY.set

\* C9 as stated: in a running session, re-resolving the configuration gives
\* the settings of the global config object, and the vector_store_set flag of
\* get_env_status agrees with config.VECTOR_STORE_ID.
C9_ReResolutionAgrees ==
    (pc = "ready" /\ event.kind \notin {"none", "import"}) =>
        LET c == LoadConfiguration(environ, jsonFile, dotenvFile)
        IN  /\ ~c.raised
            /\ c.data = config.data
            /\ ~env_status.raised
            /\ env_status.vector_store_set = (config.data.VECTOR_STORE_ID # "")

\* An assistant entry: a response with metadata, or an error without
IsAssistantEntry(m) ==
    /\ m.role = "assistant"
    /\ \/ DOMAIN m = {"role", "content", "metadata"}
       \/ /\ DOMAIN m = {"role", "content"}
          /\ \E o \in Outcomes : m.content = "Error: " \o o.text

\* C10: the history has even length and alternates user, assistant (a
\* response with metadata or an "Error: ..." entry without); an accepted
\* submission appends exactly two entries to the earlier history, a rejected
\* one and every script run but the clear leave the history as it was, and
\* the clear empties it.
C10_HistoryAlternates ==
    /\ Len(messages) % 2 = 0
    /\ \A i \in DOMAIN messages :
          IF i % 2 = 1
          THEN messages[i].role = "user" /\ DOMAIN messages[i] = {"role", "content"}
          ELSE IsAssistantEntry(messages[i])
    /\ (event.kind = "submit" /\ event.accepted) =>
          /\ Len(messages) = Len(event.before) + 2
          /\ SubSeq(messages, 1, Len(event.before)) = event.before
    /\ (event.kind = "submit" /\ ~event.accepted) =>
          /\ messages = event.before
          /\ event.rejection \in {"missing_api_key", "missing_vector_store", "no_source"}
    /\ event.kind = "clear" => messages = <<>>
    /\ event.kind \notin {"submit", "clear"} => messages = event.before

C10_Witness ==
    /\ Len(messages) = 4
    /\ "metadata" \in DOMAIN messages[2]
    /\ "metadata" \notin DOMAIN messages[4]
    /\ event.kind = "submit" /\ event.accepted

====
